---- MODULE Spec2Model ----
(***************************************************************************)
(* A model of the PolyTrader Python strategy SDK (sdk/__init__.py) and of  *)
(* the example market-maker strategy (examples/market_maker.py).           *)
(*                                                                         *)
(* Numbers.  Python floats are modelled as exact decimals in fixed point:  *)
(*   - a price, a midpoint or a spread is an integer number of ticks of    *)
(*     1/PriceScale (0.49 is 4900);                                        *)
(*   - SPREAD_PERCENT is an integer number of 1/PctScale (0.02 is 2);      *)
(*   - a product midpoint * (1 +- SPREAD_PERCENT) is kept exactly, in      *)
(*     units of 1/(PriceScale*PctScale), until round(x, 4) brings it back  *)
(*     to ticks;                                                           *)
(*   - sizes and balances are whole numbers.                               *)
(*                                                                         *)
(* Python values.  A dict is a function whose DOMAIN is the set of keys    *)
(* present, so d.get(k, default) is Get(d, k, default).  An Optional is a  *)
(* sequence: None is <<>>, a value v is <<v>>.  A call either returns,     *)
(* Return(v), or raises, Raise("AttributeError").                          *)
(***************************************************************************)
EXTENDS Integers, Sequences, FiniteSets, TLC

VARIABLES
    SPREAD_PERCENT,   \* market_maker.SPREAD_PERCENT (module global)
    ORDER_SIZE,       \* market_maker.ORDER_SIZE     (module global)
    MAX_POSITION,     \* market_maker.MAX_POSITION   (module global)
    last_prices,      \* market_maker._last_prices (module global): market id -> midpoint
    call,             \* the host's latest call into the strategy: function, arguments, result
    pending,          \* Trading._pending_orders (class attribute, one list per process)
    drained,          \* per strategy instance: the list its host task got from get_pending_orders
    live,             \* per strategy instance: that list is the very list object of the queue
    pc,               \* per strategy instance: where its host task is in a drain
    placed,           \* number of place_order calls that appended so far (bounds the run)
    recent,           \* history: the latest Trading operations, oldest first (at most three)
    data,             \* MarketData._data (class attribute): market id -> a MarketState object
    objects,          \* the MarketState objects made so far; an object is known by its index
    view              \* the dict a caller holds from MarketData.get_all: market id -> object

vars == <<SPREAD_PERCENT, ORDER_SIZE, MAX_POSITION, last_prices, call,
          pending, drained, live, pc, placed, recent, data, objects, view>>

strategy_vars == <<SPREAD_PERCENT, ORDER_SIZE, MAX_POSITION, last_prices, call>>

trading_vars == <<pending, drained, live, pc, placed, recent>>

data_vars == <<data, objects, view>>

----------------------------------------------------------------------------
(* Units and program constants *)

PriceScale == 10000

PctScale == 100

DEFAULT_SPREAD_PERCENT == 2

DEFAULT_ORDER_SIZE == 10

DEFAULT_MAX_POSITION == 100

\* REFRESH_THRESHOLD = 0.01, in units of 1/PctScale
REFRESH_THRESHOLD == 1

PRICE_FLOOR == 100

PRICE_CEILING == 9900

\* the defaults of .get('midpoint', 0.5) and .get('spread', 0.1)
DEFAULT_MIDPOINT == 5000

DEFAULT_SPREAD == 1000

----------------------------------------------------------------------------
(* Bounds of the model *)

MaxPositions == 2

MaxTargets == 2

MaxPlaced == 2

MaxObjects == 2

----------------------------------------------------------------------------
(* Python values *)

None == <<>>

Some(v) == <<v>>

Return(v) == [exc |-> "", value |-> v]

Raise(e) == [exc |-> e]

Returned(r) == r.exc = ""

\* dict.get(key, default)
Get(d, key, default) == IF key \in DOMAIN d THEN d[key] ELSE default

Min(a, b) == IF a <= b THEN a ELSE b

\* round(x, 4) of an exact value x given in units of 1/(PriceScale*PctScale):
\* the nearest tick, a tie going to the even tick (Python 3's round)
Round4(x) ==
    LET q == x \div PctScale
        r == x % PctScale
    IN  IF 2 * r < PctScale THEN q
        ELSE IF 2 * r > PctScale THEN q + 1
        ELSE IF q % 2 = 0 THEN q ELSE q + 1

\* all sequences over S of length at most n
SeqsUpTo(S, n) == UNION {[1..k -> S] : k \in 0..n}

----------------------------------------------------------------------------
(* sdk: get_position *)

\* A position as the strategy meets it in context['positions'].  sdk.get_position
\* reads pos.market_id (an attribute) and market_maker reads position.get('size', 0)
\* (a mapping method), so how the host represents a position decides what happens:
\*   "dict"     a plain dict: pos.market_id raises AttributeError
\*   "Position" the sdk dataclass: position.get raises AttributeError
\*   "both"     an object that has the attributes and the mapping methods
PositionKinds == {"dict", "Position", "both"}

\* the index of the first position get_position's loop stops at: one whose
\* attribute read raises, or one of the market asked for; 0 when the loop ends
FirstStop(positions, market_id) ==
    LET stops == {i \in 1..Len(positions) :
                     \/ positions[i].kind = "dict"
                     \/ positions[i].market_id = market_id}
    IN  IF stops = {} THEN 0 ELSE CHOOSE i \in stops : \A j \in stops : i <= j

get_position(positions, market_id) ==
    LET i == FirstStop(positions, market_id)
    IN  IF i = 0 THEN Return(None)
        ELSE IF positions[i].kind = "dict" THEN Raise("AttributeError")
        ELSE Return(Some(positions[i]))

\* position.get('size', 0) if position else 0, on what get_position returned
current_size_of(found) ==
    IF ~Returned(found) THEN found
    ELSE IF found.value = None THEN Return(0)
    ELSE IF found.value[1].kind = "Position" THEN Raise("AttributeError")
    ELSE Return(found.value[1].size)

----------------------------------------------------------------------------
(* market_maker: initialize, risk_check, propose_orders *)

\* Python None where the model compares it with strings (a missing 'side' or 'market_id')
NoneStr == "None"

\* a mutant of on_tick: the cache is rebuilt with the tick's entry alone
on_tick_forgets_others(market_state) ==
    LET market_id == Get(market_state, "market_id", NoneStr)
        midpoint  == Get(market_state, "midpoint", DEFAULT_MIDPOINT)
    IN  [last_prices |-> [m \in {market_id} |-> midpoint], log |-> FALSE]

\* on_tick, lines 32-45: what _last_prices is after the call, and whether the call
\* logged that the price moved.  last_price is _last_prices.get(market_id), None
\* for a market not seen yet; 'if last_price' is false for None and for 0.
on_tick(market_state) ==
    LET market_id  == Get(market_state, "market_id", NoneStr)
        midpoint   == Get(market_state, "midpoint", DEFAULT_MIDPOINT)
        last_price == IF market_id \in DOMAIN last_prices THEN Some(last_prices[market_id])
                                                         ELSE None
        moved      == IF midpoint >= last_price[1] THEN midpoint - last_price[1]
                                                   ELSE last_price[1] - midpoint
    IN  [last_prices |-> [m \in DOMAIN last_prices \cup {market_id} |->
                             IF m = market_id THEN midpoint ELSE last_prices[m]],
         log |-> /\ last_price # None
                 /\ last_price[1] # 0
                 \* change > REFRESH_THRESHOLD, change = abs(midpoint - last_price) / last_price
                 /\ moved * PctScale > REFRESH_THRESHOLD * last_price[1]]

\* a mutant of initialize: a config value is added to the parameter instead of replacing it
initialize_accumulating(config) ==
    [SPREAD_PERCENT |-> SPREAD_PERCENT + Get(config, "spread_percent", 0),
     ORDER_SIZE     |-> ORDER_SIZE + Get(config, "order_size", 0),
     MAX_POSITION   |-> MAX_POSITION + Get(config, "max_position", 0)]

\* what the three globals are after initialize(config)
initialize(config) ==
    [SPREAD_PERCENT |-> Get(config, "spread_percent", SPREAD_PERCENT),
     ORDER_SIZE     |-> Get(config, "order_size", ORDER_SIZE),
     MAX_POSITION   |-> Get(config, "max_position", MAX_POSITION)]

\* a False return with the line risk_check logs before it
Reject(reason) == [exc |-> "", value |-> FALSE, log |-> reason]

Accept == [exc |-> "", value |-> TRUE, log |-> ""]

\* a mutant of price_check: the upper bound is not checked
price_check_no_ceiling(price) ==
    IF price = None THEN Raise("TypeError")
    ELSE IF price[1] < PRICE_FLOOR
         THEN Reject("price out of range")
         ELSE Accept

\* the price sanity check, lines 127-133; price is the Optional order.get('price', 0)
price_check(price) ==
    IF price = None THEN Raise("TypeError")
    ELSE IF price[1] < PRICE_FLOOR \/ price[1] > PRICE_CEILING
         THEN Reject("price out of range")
         ELSE Accept

\* a mutant of risk_check: the SELL size is not checked against the position
risk_check_no_sell_check(order, context) ==
    LET positions == Get(context, "positions", <<>>)
        current   == current_size_of(get_position(positions, Get(order, "market_id", NoneStr)))
        side      == Get(order, "side", NoneStr)
        size      == Get(order, "size", 0)
    IN  IF ~Returned(current) THEN current
        ELSE IF side = "BUY" /\ current.value + size > MAX_POSITION
             THEN Reject("would exceed max position")
        ELSE price_check(Get(order, "price", Some(0)))

\* a mutant of risk_check: the price is checked before the position limits
risk_check_price_first(order, context) ==
    LET positions == Get(context, "positions", <<>>)
        current   == current_size_of(get_position(positions, Get(order, "market_id", NoneStr)))
        side      == Get(order, "side", NoneStr)
        size      == Get(order, "size", 0)
        priced    == price_check(Get(order, "price", Some(0)))
    IN  IF ~Returned(current) THEN current
        ELSE IF ~Returned(priced) \/ ~priced.value THEN priced
        ELSE IF side = "BUY" /\ current.value + size > MAX_POSITION
             THEN Reject("would exceed max position")
        ELSE IF side = "SELL" /\ size > current.value
             THEN Reject("sell size > position")
        ELSE Accept

risk_check(order, context) ==
    LET positions == Get(context, "positions", <<>>)
        current   == current_size_of(get_position(positions, Get(order, "market_id", NoneStr)))
        side      == Get(order, "side", NoneStr)
        size      == Get(order, "size", 0)
    IN  IF ~Returned(current) THEN current
        ELSE IF side = "BUY" /\ current.value + size > MAX_POSITION
             THEN Reject("would exceed max position")
        ELSE IF side = "SELL" /\ size > current.value
             THEN Reject("sell size > position")
        ELSE price_check(Get(order, "price", Some(0)))

\* a mutant of quote_prices: the quotes are not widened to the market spread
quote_prices_not_widened(midpoint, spread) ==
    [buy  |-> midpoint * (PctScale - SPREAD_PERCENT),
     sell |-> midpoint * (PctScale + SPREAD_PERCENT)]

\* the two quote prices of one market, lines 67-77, in exact units of
\* 1/(PriceScale*PctScale)
quote_prices(midpoint, spread) ==
    LET buy_price  == midpoint * (PctScale - SPREAD_PERCENT)
        sell_price == midpoint * (PctScale + SPREAD_PERCENT)
    IN  IF sell_price - buy_price < spread * PctScale
        THEN [buy  |-> midpoint * PctScale - (spread * PctScale) \div 2,
              sell |-> midpoint * PctScale + (spread * PctScale) \div 2]
        ELSE [buy |-> buy_price, sell |-> sell_price]

\* a mutant of market_orders: the SELL size is ORDER_SIZE, not capped by the position
market_orders_sell_uncapped(market_id, market, current_size, balance) ==
    LET q        == quote_prices(Get(market, "midpoint", DEFAULT_MIDPOINT),
                                 Get(market, "spread", DEFAULT_SPREAD))
        token_id == Get(market, "token_id", NoneStr)
        buy_size == Min(ORDER_SIZE, MAX_POSITION - current_size)
        buys  == IF /\ current_size < MAX_POSITION
                    /\ buy_size > 0
                    /\ balance * PriceScale * PctScale >= buy_size * q.buy
                 THEN << [market_id |-> market_id, token_id |-> token_id, side |-> "BUY",
                          type |-> "LIMIT", size |-> buy_size, price |-> Some(Round4(q.buy))] >>
                 ELSE <<>>
        sells == IF current_size > 0
                 THEN << [market_id |-> market_id, token_id |-> token_id, side |-> "SELL",
                          type |-> "LIMIT", size |-> ORDER_SIZE,
                          price |-> Some(Round4(q.sell))] >>
                 ELSE <<>>
    IN  buys \o sells

\* the orders one present market adds, lines 79-102
market_orders(market_id, market, current_size, balance) ==
    LET q        == quote_prices(Get(market, "midpoint", DEFAULT_MIDPOINT),
                                 Get(market, "spread", DEFAULT_SPREAD))
        token_id == Get(market, "token_id", NoneStr)
        buy_size == Min(ORDER_SIZE, MAX_POSITION - current_size)
        buys  == IF /\ current_size < MAX_POSITION
                    /\ buy_size > 0
                    /\ balance * PriceScale * PctScale >= buy_size * q.buy
                 THEN << [market_id |-> market_id, token_id |-> token_id, side |-> "BUY",
                          type |-> "LIMIT", size |-> buy_size, price |-> Some(Round4(q.buy))] >>
                 ELSE <<>>
        sells == IF current_size > 0
                 THEN << [market_id |-> market_id, token_id |-> token_id, side |-> "SELL",
                          type |-> "LIMIT", size |-> Min(ORDER_SIZE, current_size),
                          price |-> Some(Round4(q.sell))] >>
                 ELSE <<>>
    IN  buys \o sells

\* the loop of propose_orders from the k-th target market on, orders being the
\* list built so far
RECURSIVE propose_from(_, _, _)
propose_from(context, k, orders) ==
    LET target_markets == Get(Get(context, "parameters", <<>>), "market_ids", <<>>)
        positions      == Get(context, "positions", <<>>)
        balance        == Get(context, "balance", 0)
        market_data    == Get(context, "market_data", <<>>)
    IN  IF k > Len(target_markets) THEN Return(orders)
        ELSE LET market_id == target_markets[k]
             IN  IF market_id \notin DOMAIN market_data \/ DOMAIN market_data[market_id] = {}
                 THEN propose_from(context, k + 1, orders)
                 ELSE LET current == current_size_of(get_position(positions, market_id))
                      IN  IF ~Returned(current) THEN current
                          ELSE propose_from(context, k + 1,
                                   orders \o market_orders(market_id, market_data[market_id],
                                                           current.value, balance))

\* a mutant of propose_orders: a target market missing from market_data ends the
\* cycle with no orders
propose_orders_aborts_on_absent(context) ==
    LET target_markets == Get(Get(context, "parameters", <<>>), "market_ids", <<>>)
        market_data    == Get(context, "market_data", <<>>)
    IN  IF \E k \in 1..Len(target_markets) : target_markets[k] \notin DOMAIN market_data
        THEN Return(<<>>)
        ELSE propose_from(context, 1, <<>>)

propose_orders(context) == propose_from(context, 1, <<>>)

----------------------------------------------------------------------------
(* sdk: Trading *)

\* the strategy instances running in the process
Instances == {1, 2}

\* the members of the enums OrderSide and OrderType, by value
OrderSides == {"BUY", "SELL"}

OrderTypes == {"MARKET", "LIMIT", "GTC", "GTD", "FOK", "FAK"}

\* Trading.place_order on the list queue: OrderSide(side) and OrderType(order_type)
\* raise ValueError for a string that is no member; otherwise the Order is appended
\* and a dict describing it is returned.  by is not a field of Order: it records
\* which strategy instance made the call.
place_order(queue, by, market_id, token_id, side, order_type, size, price) ==
    IF side \notin OrderSides \/ order_type \notin OrderTypes
    THEN [exc |-> "ValueError", pending |-> queue]
    ELSE [exc |-> "",
          pending |-> Append(queue, [market_id |-> market_id, token_id |-> token_id,
                                     side |-> side, type |-> order_type, size |-> size,
                                     price |-> price, by |-> by]),
          value |-> [queued |-> TRUE,
                     order |-> [market_id |-> market_id, side |-> side,
                                type |-> order_type, size |-> size, price |-> price]]]

\* an argument left to its default
Omitted == "<omitted>"

buy(queue, by, market_id, token_id, size, price, order_type) ==
    place_order(queue, by, market_id, token_id, "BUY",
                IF order_type = Omitted THEN "LIMIT" ELSE order_type, size, price)

sell(queue, by, market_id, token_id, size, price, order_type) ==
    place_order(queue, by, market_id, token_id, "SELL",
                IF order_type = Omitted THEN "MARKET" ELSE order_type, size, price)

\* a mutant of get_pending_orders: the list of the queue itself is returned
get_pending_orders_live(queue) == [items |-> queue, live |-> TRUE]

\* Trading.get_pending_orders: a copy of the list, a new list object with the same
\* items (live: the returned list is the list object of the queue)
get_pending_orders(queue) == [items |-> queue, live |-> FALSE]

\* a mutant of clear_pending_orders: the list is left as it is
clear_pending_orders_keeps(queue) == queue

\* Trading.clear_pending_orders: the class attribute is bound to a new empty list
clear_pending_orders(queue) == <<>>

\* the dict place_order describes a queued order with (its return value's 'order')
OrderDict(o) ==
    [market_id |-> o.market_id, side |-> o.side, type |-> o.type, size |-> o.size,
     price |-> o.price]

----------------------------------------------------------------------------
(* The inputs the host hands the strategy *)

MarketIds == {"m1", "m2"}

\* the positions a context may list: every representation of a small holding
\* in m1, a holding of DEFAULT_MAX_POSITION in m1, and a holding in m2
Positions ==
    {[kind |-> k, market_id |-> "m1", size |-> 5] : k \in PositionKinds}
    \cup {[kind |-> "both", market_id |-> "m1", size |-> DEFAULT_MAX_POSITION],
          [kind |-> "both", market_id |-> "m2", size |-> 5]}

PositionLists == SeqsUpTo(Positions, MaxPositions)

Balances == {0, 100}

\* the configs initialize is called with: each key absent or present
ConfigValues == [spread_percent |-> 10, order_size |-> 20, max_position |-> 50]

Configs == {[k \in D |-> ConfigValues[k]] : D \in SUBSET DOMAIN ConfigValues}

\* candidate orders as the dicts risk_check reads; the 'price' key may be absent,
\* or present with None or a number of ticks
OrderPrices == {None, Some(99), Some(100), Some(5000), Some(9900), Some(9901), Some(15000)}

OrderSizes == {0, 10, 20}

PricedOrders ==
    [market_id : {"m1"}, side : {"BUY", "SELL"}, type : {"LIMIT", "MARKET"},
     size : OrderSizes, price : OrderPrices]

UnpricedOrders ==
    [market_id : {"m1"}, side : {"BUY", "SELL"}, type : {"LIMIT", "MARKET"},
     size : OrderSizes]

OrderDicts == PricedOrders \cup UnpricedOrders

\* the contexts risk_check is called with (it reads 'positions' only)
RiskContexts ==
    [positions : PositionLists, balance : Balances, market_data : {<<>>},
     parameters : {[market_ids |-> <<>>]}]

\* market snapshots as dicts; one has a spread of an odd number of ticks, whose
\* half is not a whole tick, and the last one leaves midpoint and spread to the
\* defaults
MarketDicts ==
    [token_id : {"t"}, midpoint : {DEFAULT_MIDPOINT, 9900}, spread : {100, DEFAULT_SPREAD}]
    \cup {[token_id |-> "t", midpoint |-> 2500, spread |-> 1001]}
    \cup {[token_id |-> "t"]}

\* market_data: m1 absent or any snapshot, m2 absent or the default snapshot
MarketDatas ==
    {[m \in D |-> IF m = "m1" THEN d ELSE [token_id |-> "t"]] :
        D \in SUBSET MarketIds, d \in MarketDicts}

ProposeContexts ==
    [positions : PositionLists, balance : Balances, market_data : MarketDatas,
     parameters : {[market_ids |-> t] : t \in SeqsUpTo(MarketIds, MaxTargets)}]

----------------------------------------------------------------------------
(* The host's calls into the strategy.  The lifecycle calls of one strategy   *)
(* instance never overlap: call holds the latest one, and the host takes a    *)
(* result (HostReturn) before it calls again; only initialize may be called   *)
(* again straight after initialize.                                           *)

NoCall == [fn |-> "none"]

CanCall == call.fn = "none"

CanInitialize == call.fn \in {"none", "initialize"}

Initialize(config) ==
    /\ CanInitialize
    /\ SPREAD_PERCENT' = initialize(config).SPREAD_PERCENT
    /\ ORDER_SIZE' = initialize(config).ORDER_SIZE
    /\ MAX_POSITION' = initialize(config).MAX_POSITION
    /\ call' = [fn |-> "initialize", config |-> config,
                \* again: the call before this one was initialize with the same config
                again |-> (call.fn = "initialize" /\ call.config = config)]
    /\ UNCHANGED last_prices
    /\ UNCHANGED <<trading_vars, data_vars>>

ProposeOrders(context) ==
    /\ CanCall
    /\ call' = [fn |-> "propose_orders", context |-> context,
                result |-> propose_orders(context)]
    /\ UNCHANGED <<SPREAD_PERCENT, ORDER_SIZE, MAX_POSITION, last_prices>>
    /\ UNCHANGED <<trading_vars, data_vars>>

RiskCheck(order, context) ==
    /\ CanCall
    /\ call' = [fn |-> "risk_check", order |-> order, context |-> context,
                result |-> risk_check(order, context)]
    /\ UNCHANGED <<SPREAD_PERCENT, ORDER_SIZE, MAX_POSITION, last_prices>>
    /\ UNCHANGED <<trading_vars, data_vars>>

HostReturn ==
    /\ call.fn # "none"
    /\ call' = NoCall
    /\ UNCHANGED <<SPREAD_PERCENT, ORDER_SIZE, MAX_POSITION, last_prices>>
    /\ UNCHANGED <<trading_vars, data_vars>>

\* the module as loaded (lines 14-16) and the sdk's class attributes (lines 104-105)
StrategyLoaded ==
    /\ SPREAD_PERCENT = DEFAULT_SPREAD_PERCENT
    /\ ORDER_SIZE = DEFAULT_ORDER_SIZE
    /\ MAX_POSITION = DEFAULT_MAX_POSITION
    /\ last_prices = <<>>
    /\ call = NoCall

TradingLoaded ==
    /\ pending = <<>>
    /\ drained = [i \in Instances |-> <<>>]
    /\ live = [i \in Instances |-> FALSE]
    /\ pc = [i \in Instances |-> "cycle"]
    /\ placed = 0
    /\ recent = <<>>

\* the sdk's class attribute MarketData._data (line 76); no caller holds a dict yet
MarketDataLoaded ==
    /\ data = <<>>
    /\ objects = <<>>
    /\ view = <<>>

Init == StrategyLoaded /\ TradingLoaded /\ MarketDataLoaded

NextStrategy ==
    \/ CanInitialize /\ \E config \in Configs : Initialize(config)
    \/ CanCall /\ \E context \in ProposeContexts : ProposeOrders(context)
    \/ CanCall /\ \E order \in OrderDicts, context \in RiskContexts : RiskCheck(order, context)
    \/ HostReturn

SpecStrategy == Init /\ [][NextStrategy]_vars

\* the market states on_tick is called with, as dicts: the market id and the
\* midpoint each absent or present; 5100 is 2% above DEFAULT_MIDPOINT
TickMidpoints == {0, DEFAULT_MIDPOINT, 5100}

MarketStates ==
    [market_id : MarketIds, midpoint : TickMidpoints]
    \cup [market_id : MarketIds] \cup [midpoint : TickMidpoints] \cup {<<>>}

OnTick(market_state) ==
    /\ CanCall
    /\ last_prices' = on_tick(market_state).last_prices
    /\ call' = [fn |-> "on_tick", market_state |-> market_state,
                log |-> on_tick(market_state).log]
    /\ UNCHANGED <<SPREAD_PERCENT, ORDER_SIZE, MAX_POSITION>>
    /\ UNCHANGED <<trading_vars, data_vars>>

\* the lifecycle up to the ticks of a cycle: initialize, then on_tick per tick
NextTick ==
    \/ CanInitialize /\ \E config \in Configs : Initialize(config)
    \/ CanCall /\ \E market_state \in MarketStates : OnTick(market_state)
    \/ HostReturn

SpecTick == Init /\ [][NextTick]_vars

----------------------------------------------------------------------------
(* Claims about risk_check *)

\* the size of the context's position in a market: that of the first position
\* listed for it, 0 when none is
HeldSize(positions, market_id) ==
    LET held == {i \in 1..Len(positions) : positions[i].market_id = market_id}
    IN  IF held = {} THEN 0
        ELSE positions[CHOOSE i \in held : \A j \in held : i <= j].size

\* the latest call is a risk_check that returned True
RiskAccepted ==
    /\ call.fn = "risk_check"
    /\ Returned(call.result)
    /\ call.result.value

\* C2: every order risk_check accepts keeps the position within bounds: a BUY has
\* current_size + size <= MAX_POSITION and a SELL has size <= current_size, where
\* current_size is the size of the context's position in the order's market
C2_AcceptedWithinPositionLimits ==
    RiskAccepted =>
        LET current_size == HeldSize(call.context.positions, call.order.market_id)
        IN  /\ call.order.side = "BUY" => current_size + call.order.size <= MAX_POSITION
            /\ call.order.side = "SELL" => call.order.size <= current_size

C2_Witness ==
    /\ RiskAccepted
    /\ call.order.side = "SELL"
    /\ call.order.size = 10
    /\ HeldSize(call.context.positions, call.order.market_id) = DEFAULT_MAX_POSITION

C4_AcceptedBuyIsSolvent ==
    (RiskAccepted /\ call.order.side = "BUY") =>
        call.context.balance * PriceScale >= call.order.size * call.order.price[1]

\* the latest call is a risk_check that returned (True or False)
RiskReturned ==
    /\ call.fn = "risk_check"
    /\ Returned(call.result)

\* the order of the latest risk_check breaks a position limit of its context
BreaksPositionLimit ==
    LET current_size == HeldSize(call.context.positions, call.order.market_id)
    IN  \/ call.order.side = "BUY" /\ current_size + call.order.size > MAX_POSITION
        \/ call.order.side = "SELL" /\ call.order.size > current_size

----------------------------------------------------------------------------
(* Claims about propose_orders and initialize *)

DefaultParameters ==
    /\ SPREAD_PERCENT = DEFAULT_SPREAD_PERCENT
    /\ ORDER_SIZE = DEFAULT_ORDER_SIZE
    /\ MAX_POSITION = DEFAULT_MAX_POSITION

\* the latest call is the scenario's propose_orders, and it returned: default
\* parameters, balance 100, the one target market m1 at midpoint 0.50 and spread
\* 0.10, and a position of the given size in it
ScenarioReturned(current_size) ==
    /\ call.fn = "propose_orders"
    /\ DefaultParameters
    /\ call.context.balance = 100
    /\ call.context.parameters.market_ids = <<"m1">>
    /\ "m1" \in DOMAIN call.context.market_data
    /\ Get(call.context.market_data["m1"], "midpoint", DEFAULT_MIDPOINT) = 5000
    /\ Get(call.context.market_data["m1"], "spread", DEFAULT_SPREAD) = 1000
    /\ HeldSize(call.context.positions, "m1") = current_size
    /\ Returned(call.result)

LimitOrder(side, size, price) ==
    [market_id |-> "m1", token_id |-> "t", side |-> side, type |-> "LIMIT",
     size |-> size, price |-> Some(price)]

SingleMarketContexts ==
    [positions : SeqsUpTo(Positions, 1), balance : Balances, market_data : MarketDatas,
     parameters : {[market_ids |-> <<"m1">>]}]

\* C7: initialize is idempotent: a second initialize with the config of the call
\* before it leaves SPREAD_PERCENT, ORDER_SIZE and MAX_POSITION as they were, and
\* with them what propose_orders returns for the same context
C7_InitializeIdempotent ==
    [][(/\ call.fn = "initialize"
        /\ call'.fn = "initialize"
        /\ call'.config = call.config)
       => /\ SPREAD_PERCENT' = SPREAD_PERCENT
          /\ ORDER_SIZE' = ORDER_SIZE
          /\ MAX_POSITION' = MAX_POSITION
          /\ \A context \in SingleMarketContexts :
                 propose_orders(context)' = propose_orders(context)]_vars

C7_Witness ==
    /\ call.fn = "initialize"
    /\ call.again
    /\ DOMAIN call.config = DOMAIN ConfigValues

\* C13: after any sequence of initialize calls the parameters depend only on the
\* config of the last call and the built-in defaults: each parameter is the last
\* config's value, or its default when the last config omits the key
C13_ParametersFromLastConfig ==
    call.fn = "initialize" =>
        /\ SPREAD_PERCENT = Get(call.config, "spread_percent", DEFAULT_SPREAD_PERCENT)
        /\ ORDER_SIZE = Get(call.config, "order_size", DEFAULT_ORDER_SIZE)
        /\ MAX_POSITION = Get(call.config, "max_position", DEFAULT_MAX_POSITION)

\* the latest call is a propose_orders that returned a list of orders
ProposeReturned ==
    /\ call.fn = "propose_orders"
    /\ Returned(call.result)

\* C14 as stated: each order propose_orders returns is accepted by risk_check on
\* the same context
C14_ProposedOrdersAccepted ==
    ProposeReturned =>
        \A k \in 1..Len(call.result.value) :
            LET r == risk_check(call.result.value[k], call.context)
            IN  Returned(r) /\ r.value

\* C14 amended: each order propose_orders returns passes the position-limit checks
\* of risk_check on the same context; risk_check accepts it exactly when its
\* rounded quote lies in [PRICE_FLOOR, PRICE_CEILING], and rejects it for its
\* price, never for its size, otherwise
C14_ProposedOrdersWithinPositionLimits ==
    ProposeReturned =>
        \A k \in 1..Len(call.result.value) :
            LET o == call.result.value[k]
                r == risk_check(o, call.context)
            IN  /\ Returned(r)
                /\ r.value <=> (PRICE_FLOOR <= o.price[1] /\ o.price[1] <= PRICE_CEILING)
                /\ ~r.value => r.log = "price out of range"

\* a BUY that risk_check accepts and a SELL it rejects for its price, from one call
C14_Witness ==
    /\ ProposeReturned
    /\ Len(call.result.value) = 2
    /\ call.result.value[1].side = "BUY"
    /\ risk_check(call.result.value[1], call.context) = Accept
    /\ call.result.value[2].side = "SELL"
    /\ call.result.value[2].price[1] > PRICE_CEILING
    /\ risk_check(call.result.value[2], call.context) = Reject("price out of range")

\* the context with the target markets that market_data lacks taken off the list
WithoutAbsentTargets(context) ==
    [context EXCEPT !.parameters.market_ids =
        SelectSeq(@, LAMBDA market_id : market_id \in DOMAIN context.market_data)]

\* C15: a target market id absent from market_data is skipped, and only it:
\* propose_orders gives what it gives for the same context with the absent ids not
\* listed, the same orders in the same order
C15_AbsentMarketSkipped ==
    call.fn = "propose_orders" =>
        call.result = propose_orders(WithoutAbsentTargets(call.context))

\* m2 listed first and absent, m1 present and quoted on both sides
C15_Witness ==
    /\ ProposeReturned
    /\ call.context.parameters.market_ids = <<"m2", "m1">>
    /\ DOMAIN call.context.market_data = {"m1"}
    /\ Len(call.result.value) = 2

\* C17: the quotes keep the market spread as a minimum gap: for every market
\* propose_orders processes the sell quote minus the buy quote is at least the
\* market's spread, and so is the price of the emitted SELL order minus the price
\* of the emitted BUY order of that market
C17_QuotesRespectMarketSpread ==
    ProposeReturned =>
        /\ \A market_id \in DOMAIN call.context.market_data :
               LET market == call.context.market_data[market_id]
                   spread == Get(market, "spread", DEFAULT_SPREAD)
                   q      == quote_prices(Get(market, "midpoint", DEFAULT_MIDPOINT), spread)
               IN  q.sell - q.buy >= spread * PctScale
        /\ \A i, j \in 1..Len(call.result.value) :
               LET b == call.result.value[i]
                   s == call.result.value[j]
               IN  (b.side = "BUY" /\ s.side = "SELL" /\ b.market_id = s.market_id) =>
                       s.price[1] - b.price[1] >=
                           Get(call.context.market_data[b.market_id], "spread", DEFAULT_SPREAD)

\* the calls whose results C16 compares before and after a tick
TickProbeOrders ==
    {[market_id |-> "m1", side |-> "BUY", type |-> "LIMIT", size |-> 10,
      price |-> Some(DEFAULT_MIDPOINT)],
     [market_id |-> "m1", side |-> "SELL", type |-> "LIMIT", size |-> 10,
      price |-> Some(15000)]}

TickProbeContexts ==
    [positions : SeqsUpTo({p \in Positions : p.kind = "both" /\ p.market_id = "m1"}, 1),
     balance : {100},
     market_data : {<<>>} \cup {[m \in {"m1"} |-> d] : d \in {[token_id |-> "t"]}},
     parameters : {[market_ids |-> <<"m1">>]}]

\* C16: an on_tick call changes the last-price cache only, and in it only the
\* entry of the tick's market id (None when the tick has none): the parameters,
\* the pending-order queue and the MarketData store are as before, and
\* propose_orders and risk_check return after the call what they returned before
C16_OnTickChangesOwnCacheEntryOnly ==
    [][call'.fn = "on_tick" =>
          LET market_id == Get(call'.market_state, "market_id", NoneStr)
          IN  /\ DOMAIN last_prices' = DOMAIN last_prices \cup {market_id}
              /\ \A m \in DOMAIN last_prices : m # market_id => last_prices'[m] = last_prices[m]
              /\ last_prices'[market_id] = Get(call'.market_state, "midpoint", DEFAULT_MIDPOINT)
              /\ <<SPREAD_PERCENT, ORDER_SIZE, MAX_POSITION>>' =
                     <<SPREAD_PERCENT, ORDER_SIZE, MAX_POSITION>>
              /\ pending' = pending
              /\ <<data, objects>>' = <<data, objects>>
              /\ \A context \in TickProbeContexts :
                     propose_orders(context)' = propose_orders(context)
              /\ \A order \in TickProbeOrders, context \in TickProbeContexts :
                     risk_check(order, context)' = risk_check(order, context)]_vars

\* a tick for m2 that moved its price by more than the threshold, with the entry
\* of m1 and configured parameters in place
C16_Witness ==
    /\ call.fn = "on_tick"
    /\ call.log
    /\ Get(call.market_state, "market_id", NoneStr) = "m2"
    /\ DOMAIN last_prices = {"m1", "m2"}
    /\ last_prices["m1"] # last_prices["m2"]
    /\ ~DefaultParameters

----------------------------------------------------------------------------
(* The strategies' and the host's calls into Trading.  Two strategy instances   *)
(* run in one process, so both use the one class attribute                      *)
(* Trading._pending_orders.  The host drains for an instance between that      *)
(* instance's cycles: get_pending_orders, then clear_pending_orders; the other *)
(* instance keeps running meanwhile.                                           *)

\* the arguments strategies call place_order, buy and sell with
SideArgs == {"BUY", "SELL", "HOLD"}

TypeArgs == {"LIMIT", "MARKET"}

SizeArgs == {0, 10}

PriceArgs == {None, Some(15000)}

\* the latest operations, the newest last, at most three kept
Remember(op) == IF Len(recent) < 3 THEN Append(recent, op) ELSE Append(Tail(recent), op)

Placed(i, r) ==
    /\ pending' = r.pending
    /\ placed' = IF Returned(r) THEN placed + 1 ELSE placed
    /\ recent' = IF Returned(r) THEN Remember([op |-> "place", by |-> i, n |-> 1]) ELSE recent
    \* a list that is the queue's own list object shows the append
    /\ drained' = [j \in Instances |-> IF live[j] THEN r.pending ELSE drained[j]]
    /\ UNCHANGED <<live, pc>>
    /\ UNCHANGED <<strategy_vars, data_vars>>

PlaceOrder(i, side, order_type, size, price) ==
    /\ pc[i] = "cycle"
    /\ placed < MaxPlaced
    /\ Placed(i, place_order(pending, i, "m1", "t", side, order_type, size, price))

Buy(i, size, price, order_type) ==
    /\ pc[i] = "cycle"
    /\ placed < MaxPlaced
    /\ Placed(i, buy(pending, i, "m1", "t", size, price, order_type))

Sell(i, size, price, order_type) ==
    /\ pc[i] = "cycle"
    /\ placed < MaxPlaced
    /\ Placed(i, sell(pending, i, "m1", "t", size, price, order_type))

GetPendingOrders(i) ==
    /\ pc[i] = "cycle"
    /\ drained' = [drained EXCEPT ![i] = get_pending_orders(pending).items]
    /\ live' = [live EXCEPT ![i] = get_pending_orders(pending).live]
    /\ pc' = [pc EXCEPT ![i] = "got"]
    /\ recent' = Remember([op |-> "get", by |-> i, n |-> Len(pending)])
    /\ UNCHANGED <<pending, placed>>
    /\ UNCHANGED <<strategy_vars, data_vars>>

ClearPendingOrders(i) ==
    /\ pc[i] = "got"
    /\ pending' = clear_pending_orders(pending)
    /\ drained' = [drained EXCEPT ![i] = <<>>]
    \* the class attribute is bound to a new list: no returned list is the queue's now
    /\ live' = [j \in Instances |-> FALSE]
    /\ pc' = [pc EXCEPT ![i] = "cycle"]
    /\ recent' = Remember([op |-> "clear", by |-> i, n |-> Len(pending)])
    /\ UNCHANGED placed
    /\ UNCHANGED <<strategy_vars, data_vars>>

\* the host changes the list get_pending_orders returned to it: returned.clear().
\* The queue changes with it only when that list is the queue's own list object.
MutateReturned(i) ==
    /\ pc[i] = "got"
    /\ drained[i] # <<>>
    /\ drained' = [drained EXCEPT ![i] = <<>>]
    /\ pending' = IF live[i] THEN drained'[i] ELSE pending
    /\ UNCHANGED <<live, pc, placed, recent>>
    /\ UNCHANGED <<strategy_vars, data_vars>>

Next ==
    \/ \E i \in Instances, side \in SideArgs, order_type \in TypeArgs,
          size \in SizeArgs, price \in PriceArgs :
           PlaceOrder(i, side, order_type, size, price)
    \/ \E i \in Instances, size \in SizeArgs, price \in PriceArgs,
          order_type \in TypeArgs \cup {Omitted} :
           Buy(i, size, price, order_type)
    \/ \E i \in Instances, size \in SizeArgs, price \in PriceArgs,
          order_type \in TypeArgs \cup {Omitted} :
           Sell(i, size, price, order_type)
    \/ \E i \in Instances : GetPendingOrders(i)
    \/ \E i \in Instances : MutateReturned(i)
    \/ \E i \in Instances : ClearPendingOrders(i)

Spec == Init /\ [][Next]_vars

----------------------------------------------------------------------------
(* Claims about the pending-order queue *)

\* an order with a size that is not positive, or of a priced type without a price
Malformed(o) ==
    \/ o.size <= 0
    \/ o.type # "MARKET" /\ o.price = None

\* C1: every order in Trading._pending_orders is one risk_check accepts.  The
\* claim is read in the way most favourable to the queue: only well-formed orders
\* that carry a price are looked at, and an order counts as gated when risk_check
\* accepts it in at least one of the contexts.
C1_QueuedOrdersPassRiskCheck ==
    \A k \in 1..Len(pending) :
        (~Malformed(pending[k]) /\ pending[k].price # None) =>
            \E context \in RiskContexts :
                LET r == risk_check(OrderDict(pending[k]), context)
                IN  Returned(r) /\ r.value

\* C5: a malformed order is never in the pending-order queue and is never accepted
\* by risk_check
C5_MalformedOrdersDropped ==
    /\ \A k \in 1..Len(pending) : ~Malformed(pending[k])
    /\ RiskAccepted =>
           ~Malformed([size |-> call.order.size, type |-> call.order.type,
                       price |-> Get(call.order, "price", None)])

\* C8: clear_pending_orders leaves the queue empty, and a get_pending_orders that
\* comes right after a clear_pending_orders, with no place_order in between,
\* returns the empty list: the second of two drains in a row delivers nothing
C8_SecondDrainIsEmpty ==
    /\ (recent # <<>> /\ recent[Len(recent)].op = "clear") => pending = <<>>
    /\ \A i \in Instances :
           (/\ Len(recent) >= 2
            /\ recent[Len(recent) - 1].op = "clear"
            /\ recent[Len(recent)].op = "get"
            /\ recent[Len(recent)].by = i)
           => drained[i] = <<>>

\* a drain that returned an order, then the get of a second drain for the same instance
C8_Witness ==
    \E i \in Instances :
        /\ Len(recent) = 3
        /\ recent[1].op = "get" /\ recent[1].by = i /\ recent[1].n > 0
        /\ recent[2].op = "clear" /\ recent[2].by = i
        /\ recent[3].op = "get" /\ recent[3].by = i
        /\ pc[i] = "got"

\* C9: a drain is atomic: the clear_pending_orders of a drain removes only orders
\* that were in the list its get_pending_orders returned
C9_ClearRemovesOnlyWhatWasReturned ==
    [][\A i \in Instances :
          (pc[i] = "got" /\ pc'[i] = "cycle") => pending = drained[i]]_vars

\* C10: the list a drain for one instance returns holds only orders that
\* instance queued
C10_DrainReturnsOwnOrdersOnly ==
    \A i \in Instances : \A k \in 1..Len(drained[i]) : drained[i][k].by = i

----------------------------------------------------------------------------
(* sdk: MarketData.  A MarketState is a mutable object: objects holds the      *)
(* objects made so far, and data and every dict got from get_all map a market  *)
(* id to an object, by its index in objects.  Of the fields of a MarketState   *)
(* the model keeps market_id, bid and ask.                                     *)

\* the size orderbook gives every level
BOOK_SIZE == 100

\* MarketData.get: the object stored for the market, or None
get(market_id) == IF market_id \in DOMAIN data THEN Some(data[market_id]) ELSE None

\* MarketData.get_all: cls._data.copy(), a new dict with the same keys and the
\* same objects as values
get_all == [market_id \in DOMAIN data |-> data[market_id]]

\* MarketData.orderbook (a MarketState object is always true in 'if not market')
orderbook(market_id) ==
    LET market == get(market_id)
    IN  IF market = None THEN [bids |-> <<>>, asks |-> <<>>]
        ELSE [bids |-> << <<objects[market[1]].bid, BOOK_SIZE>> >>,
              asks |-> << <<objects[market[1]].ask, BOOK_SIZE>> >>]

\* a dict with the entry of key set to value, added or replaced: d[key] = value
Put(d, key, value) == [k \in DOMAIN d \cup {key} |-> IF k = key THEN value ELSE d[k]]

\* a dict without the entry of key: del d[key]
Del(d, key) == [k \in DOMAIN d \ {key} |-> d[k]]

\* the executor stores a new snapshot of a market: MarketData._data[market_id] =
\* MarketState(...)
Populate(market_id, bid, ask) ==
    /\ Len(objects) < MaxObjects
    /\ objects' = Append(objects, [market_id |-> market_id, bid |-> bid, ask |-> ask])
    /\ data' = Put(data, market_id, Len(objects) + 1)
    /\ UNCHANGED view
    /\ UNCHANGED <<strategy_vars, trading_vars>>

\* a caller takes the dict of MarketData.get_all()
GetAll ==
    /\ view' = get_all
    /\ UNCHANGED <<data, objects>>
    /\ UNCHANGED <<strategy_vars, trading_vars>>

\* the caller adds or replaces an entry of the dict it holds, with an object it
\* can reach: view[market_id] = view[other]
ViewPut(market_id, other) ==
    /\ other \in DOMAIN view
    /\ view[other] # Get(view, market_id, 0)
    /\ view' = Put(view, market_id, view[other])
    /\ UNCHANGED <<data, objects>>
    /\ UNCHANGED <<strategy_vars, trading_vars>>

\* the caller removes an entry of the dict it holds: del view[market_id]
ViewRemove(market_id) ==
    /\ market_id \in DOMAIN view
    /\ view' = Del(view, market_id)
    /\ UNCHANGED <<data, objects>>
    /\ UNCHANGED <<strategy_vars, trading_vars>>

\* the caller assigns a field of a MarketState it reaches through the dict it
\* holds: view[market_id].bid = value, or .ask
ViewSetField(market_id, field, value) ==
    /\ market_id \in DOMAIN view
    /\ objects' = [objects EXCEPT ![view[market_id]][field] = value]
    /\ UNCHANGED <<data, view>>
    /\ UNCHANGED <<strategy_vars, trading_vars>>

\* the values of the fields bid and ask, in ticks
BookPrices == {4900, 5100}

NextData ==
    \/ \E market_id \in MarketIds, bid \in {4900}, ask \in {5100} : Populate(market_id, bid, ask)
    \/ GetAll
    \/ \E market_id \in MarketIds, other \in MarketIds : ViewPut(market_id, other)
    \/ \E market_id \in MarketIds : ViewRemove(market_id)
    \/ \E market_id \in MarketIds, field \in {"bid", "ask"}, value \in BookPrices :
           ViewSetField(market_id, field, value)

SpecData == Init /\ [][NextData]_vars

\* what MarketData.get and MarketData.get_all return, as values: the MarketState
\* behind each key
GetValue(market_id) ==
    IF get(market_id) = None THEN None ELSE Some(objects[get(market_id)[1]])

GetAllValue == [market_id \in DOMAIN get_all |-> objects[get_all[market_id]]]

\* C11: get_all returns a full copy: no step other than the executor storing a
\* snapshot, so nothing a caller does through the dict it got (adding, removing or
\* replacing an entry, assigning a field of a MarketState in it), changes what
\* MarketData.get, get_all and orderbook return
C11_CallerCannotChangeStore ==
    [][data' = data =>
          /\ GetAllValue' = GetAllValue
          /\ \A market_id \in MarketIds :
                 /\ GetValue(market_id)' = GetValue(market_id)
                 /\ orderbook(market_id)' = orderbook(market_id)]_vars

\* C18: between drains the queue is an append-only ordered sequence: a step that
\* is no clear_pending_orders leaves the queue as it is or, for a place_order that
\* completes, adds one order at the end with the earlier orders as they were;
\* get_pending_orders returns the queue, in its order; and a change of the
\* returned list leaves the queue as it is
C18_QueueAppendOnlyBetweenDrains ==
    [][/\ (\A i \in Instances : ~(pc[i] = "got" /\ pc'[i] = "cycle")) =>
              \/ pending' = pending
              \/ /\ placed' = placed + 1
                 /\ Len(pending') = Len(pending) + 1
                 /\ SubSeq(pending', 1, Len(pending)) = pending
       /\ \A i \in Instances :
              (pc[i] = "cycle" /\ pc'[i] = "got") =>
                  drained'[i] = pending /\ pending' = pending
       /\ \A i \in Instances :
              (pc[i] = "got" /\ pc'[i] = "got" /\ placed' = placed /\ drained'[i] # drained[i]) =>
                  pending' = pending]_vars

\* a host got the two queued orders, emptied the list it got, and the queue still
\* holds both
C18_Witness ==
    \E i \in Instances :
        /\ pc[i] = "got"
        /\ recent # <<>>
        /\ recent[Len(recent)] = [op |-> "get", by |-> i, n |-> 2]
        /\ drained[i] = <<>>
        /\ Len(pending) = 2
        /\ pending[1].by # pending[2].by

====
